---------------------------- MODULE Spec2Model ----------------------------
(***************************************************************************)
(* A model of the Felzenszwalb-Huttenlocher segmentation engine of         *)
(* AlexKalll/img-segmentation: the disjoint-set forest of                  *)
(* src/src/union_find.py and the graph builder, the two merge passes, the  *)
(* painting loop and the analyzer of src/src/fh_segmentation.py.           *)
(*                                                                         *)
(* Arrays are 0-based functions over 0 .. n-1, as in the source.           *)
(* Smoothing (sigma > 0) is done by an external library and is not         *)
(* modelled: every run of the model is a run with sigma = 0, in which the  *)
(* graph builder receives image.copy(), element type included.             *)
(***************************************************************************)
EXTENDS Integers, Sequences, FiniteSets

VARIABLES
    parent,            \* UnionFind.parent
    rank,              \* UnionFind.rank
    num_sets,          \* UnionFind.num_sets
    call,              \* the last call made on the forest by a client: op, i, j,
                       \* the value returned and the exception raised ("" for none)
    image,             \* the buffer handed to felzenszwalb_huttenlocher
    k,                 \* its parameter k
    min_size,          \* its parameter min_size
    pc,                \* the position of the run inside felzenszwalb_huttenlocher / analyze_segments
    edges,             \* the sorted edge list returned by create_graph
    idx,               \* the position of the running for-loop in edges (1-based)
    threshold,         \* the threshold array
    pass1_num_sets,    \* history: uf.num_sets when the first loop ended (-1 before)
    component_colors,  \* the dict root -> color of the painting loop
    segmented_image,   \* the painted buffer
    top_n,             \* the argument top_n of analyze_segments
    analysis,          \* the dict analyze_segments returns
    run,               \* which run on this input this is (1 or 2)
    prev               \* what the previous run on this input returned: num_sets,
                       \* component_sizes and the color of the first pixel

vars == <<parent, rank, num_sets, call, image, k, min_size, pc, edges, idx,
          threshold, pass1_num_sets, component_colors, segmented_image,
          top_n, analysis, run, prev>>

ufVars == <<parent, rank, num_sets>>
runVars == <<image, k, min_size, pc, edges, idx, threshold, pass1_num_sets,
             component_colors, segmented_image, top_n, analysis, run, prev>>

----------------------------------------------------------------------------
(* Bounds of the model *)

MaxSize == 5          \* the largest forest of the forest-only specification
MaxHeight == 2        \* the tallest buffer
MaxWidth == 4         \* the widest buffer
MaxPixels == 4        \* the most pixels in a single-channel buffer
MaxColorPixels == 2   \* the most pixels in a 3-channel buffer

Range(n) == 0 .. (n - 1)

Min(a, b) == IF a <= b THEN a ELSE b

----------------------------------------------------------------------------
(* src/src/union_find.py *)

\* What a call returns: Python's None, or an integer.
None == [is_none |-> TRUE, value |-> 0]

Value(v) == [is_none |-> FALSE, value |-> v]

NewParent(size) == [i \in Range(size) |-> i]

NewRank(size) == [i \in Range(size) |-> 0]

\* find without the write self.parent[i] = ...: the root is looked up and no
\* parent entry is rewritten
RECURSIVE findNoCompression(_, _)
findNoCompression(par, i) ==
    IF par[i] # i
    THEN [parent |-> par, root |-> findNoCompression(par, par[i]).root]
    ELSE [parent |-> par, root |-> par[i]]

\* UnionFind.find: the parent array after the call, and the value returned
RECURSIVE find(_, _)
find(par, i) ==
    IF par[i] # i
    THEN LET r == find(par, par[i])
         IN  [parent |-> [r.parent EXCEPT ![i] = r.root], root |-> r.root]
    ELSE [parent |-> par, root |-> par[i]]

\* union with the decrement of num_sets left out
unionNoCount(uf, i, j) ==
    LET fi == find(uf.parent, i)
        fj == find(fi.parent, j)
    IN  IF fi.root # fj.root
        THEN [parent |-> [fj.parent EXCEPT ![fj.root] = fi.root],
              rank |-> uf.rank, num_sets |-> uf.num_sets, ret |-> None]
        ELSE [parent |-> fj.parent, rank |-> uf.rank, num_sets |-> uf.num_sets, ret |-> None]

\* union with the decrement of num_sets moved out of the test root_i != root_j
unionAlwaysCount(uf, i, j) ==
    LET fi == find(uf.parent, i)
        fj == find(fi.parent, j)
    IN  IF fi.root # fj.root
        THEN [parent |-> [fj.parent EXCEPT ![fj.root] = fi.root],
              rank |-> uf.rank, num_sets |-> uf.num_sets - 1, ret |-> None]
        ELSE [parent |-> fj.parent, rank |-> uf.rank, num_sets |-> uf.num_sets - 1, ret |-> None]

\* union with num_sets counted up instead of down
unionCountUp(uf, i, j) ==
    LET fi == find(uf.parent, i)
        fj == find(fi.parent, j)
    IN  IF fi.root # fj.root
        THEN [parent |-> [fj.parent EXCEPT ![fj.root] = fi.root],
              rank |-> uf.rank, num_sets |-> uf.num_sets + 1, ret |-> None]
        ELSE [parent |-> fj.parent, rank |-> uf.rank, num_sets |-> uf.num_sets, ret |-> None]

\* union with the two rank comparisons exchanged: the root of higher rank is
\* attached under the root of lower rank
unionRanksSwapped(uf, i, j) ==
    LET fi == find(uf.parent, i)
        fj == find(fi.parent, j)
    IN  IF fi.root # fj.root
        THEN IF uf.rank[fi.root] > uf.rank[fj.root]
             THEN [parent |-> [fj.parent EXCEPT ![fi.root] = fj.root],
                   rank |-> uf.rank, num_sets |-> uf.num_sets - 1, ret |-> None]
             ELSE IF uf.rank[fi.root] < uf.rank[fj.root]
             THEN [parent |-> [fj.parent EXCEPT ![fj.root] = fi.root],
                   rank |-> uf.rank, num_sets |-> uf.num_sets - 1, ret |-> None]
             ELSE [parent |-> [fj.parent EXCEPT ![fj.root] = fi.root],
                   rank |-> [uf.rank EXCEPT ![fi.root] = @ + 1],
                   num_sets |-> uf.num_sets - 1, ret |-> None]
        ELSE [parent |-> fj.parent, rank |-> uf.rank, num_sets |-> uf.num_sets, ret |-> None]

\* union without the increment of the rank when the two ranks are equal
unionNoRankGrowth(uf, i, j) ==
    LET fi == find(uf.parent, i)
        fj == find(fi.parent, j)
    IN  IF fi.root # fj.root
        THEN IF uf.rank[fi.root] < uf.rank[fj.root]
             THEN [parent |-> [fj.parent EXCEPT ![fi.root] = fj.root],
                   rank |-> uf.rank, num_sets |-> uf.num_sets - 1, ret |-> None]
             ELSE [parent |-> [fj.parent EXCEPT ![fj.root] = fi.root],
                   rank |-> uf.rank, num_sets |-> uf.num_sets - 1, ret |-> None]
        ELSE [parent |-> fj.parent, rank |-> uf.rank, num_sets |-> uf.num_sets, ret |-> None]

\* UnionFind.union on the forest uf = [parent, rank, num_sets]: the forest
\* after the call and the value returned. The method has no return statement.
union(uf, i, j) ==
    LET fi == find(uf.parent, i)
        fj == find(fi.parent, j)
        root_i == fi.root
        root_j == fj.root
        par == fj.parent
    IN  IF root_i # root_j
        THEN IF uf.rank[root_i] < uf.rank[root_j]
             THEN [parent |-> [par EXCEPT ![root_i] = root_j],
                   rank |-> uf.rank, num_sets |-> uf.num_sets - 1, ret |-> None]
             ELSE IF uf.rank[root_i] > uf.rank[root_j]
             THEN [parent |-> [par EXCEPT ![root_j] = root_i],
                   rank |-> uf.rank, num_sets |-> uf.num_sets - 1, ret |-> None]
             ELSE [parent |-> [par EXCEPT ![root_j] = root_i],
                   rank |-> [uf.rank EXCEPT ![root_i] = @ + 1],
                   num_sets |-> uf.num_sets - 1, ret |-> None]
        ELSE [parent |-> par, rank |-> uf.rank, num_sets |-> uf.num_sets, ret |-> None]

\* UnionFind.find called with any integer i on a forest of n elements. numpy
\* raises IndexError at the first read self.parent[i] when i >= n or i < -n,
\* before anything is written. For -n <= i < 0 numpy reads and writes the
\* element n + i; parent[i] != i always holds there, so the call stores
\* find(parent[n + i]) at n + i and returns it, which is what find(n + i)
\* stores and returns.
find_index(par, i) ==
    LET n == Cardinality(DOMAIN par)
    IN  IF i >= n \/ i < -n
        THEN [parent |-> par, ret |-> None, error |-> "IndexError"]
        ELSE LET f == find(par, IF i < 0 THEN n + i ELSE i)
             IN  [parent |-> f.parent, ret |-> Value(f.root), error |-> ""]

\* The root an index resolves to, by walking the parent pointers without
\* changing them: what find would return.
RECURSIVE Root(_, _)
Root(par, i) == IF par[i] = i THEN i ELSE Root(par, par[i])

Roots(par) == {Root(par, i) : i \in DOMAIN par}

Members(par, r) == {i \in DOMAIN par : Root(par, i) = r}

----------------------------------------------------------------------------
(* The forest driven by an arbitrary client: any sequence of find and union *)
(* calls on a forest of any size up to MaxSize.                            *)

NoCall == [op |-> "none", i |-> 0, j |-> 0, ret |-> None, error |-> ""]

Idle == [height |-> 0, width |-> 0, is_color |-> FALSE, dtype |-> "float64",
         data |-> <<>>]

InitUF ==
    /\ \E size \in 0 .. MaxSize :
          /\ parent = NewParent(size)
          /\ rank = NewRank(size)
          /\ num_sets = size
    /\ call = NoCall
    /\ image = Idle
    /\ k = 0
    /\ min_size = 0
    /\ pc = "client"
    /\ edges = <<>>
    /\ idx = 0
    /\ threshold = <<>>
    /\ pass1_num_sets = -1
    /\ component_colors = <<>>
    /\ segmented_image = <<>>
    /\ top_n = 0
    /\ analysis = <<>>
    /\ run = 1
    /\ prev = <<>>

FindCall(i) ==
    /\ pc = "client"
    /\ LET f == find_index(parent, i)
       IN  /\ parent' = f.parent
           /\ call' = [op |-> "find", i |-> i, j |-> i, ret |-> f.ret,
                       error |-> f.error]
    /\ UNCHANGED <<rank, num_sets>>
    /\ UNCHANGED runVars

UnionCall(i, j) ==
    /\ pc = "client"
    /\ LET u == union([parent |-> parent, rank |-> rank, num_sets |-> num_sets], i, j)
       IN  /\ parent' = u.parent
           /\ rank' = u.rank
           /\ num_sets' = u.num_sets
           /\ call' = [op |-> "union", i |-> i, j |-> j, ret |-> u.ret,
                       error |-> ""]
    /\ UNCHANGED runVars

NextUF ==
    \/ \E i \in DOMAIN parent : FindCall(i)
    \/ \E i, j \in DOMAIN parent : UnionCall(i, j)

SpecUF == InitUF /\ [][NextUF]_vars

----------------------------------------------------------------------------
(* The inputs of a segmentation run *)

\* Pixel values of a single-channel buffer: the extremes of an 8-bit pixel
\* and one value whose square is 2^8.
PixelValues == {0, 16, 255}

\* Pixels of a 3-channel buffer.
ColorPixelValues == {<<0, 0, 0>>, <<255, 0, 16>>, <<16, 16, 16>>}

\* Element types of the buffer: numpy's uint8 (arithmetic modulo 2^8) and
\* float64 (exact on these values).
DTypes == {"uint8", "float64"}

Ks == {10, 256}

MinSizes == {0, 2, MaxPixels + 1}

TopNs == {1, 9}

\* What np.random.randint(0, 255) may return: the ends of its range.
Colors == {0, 254}

\* What np.random.randint(0, 255, 3) may return.
ColorVectors == {<<0, 0, 0>>, <<254, 0, 254>>}

Shapes == {s \in (0 .. MaxHeight) \X (0 .. MaxWidth) : s[1] * s[2] <= MaxPixels}

GrayImages ==
    UNION {[height : {s[1]}, width : {s[2]}, is_color : {FALSE}, dtype : DTypes,
            data : [Range(s[1] * s[2]) -> PixelValues]] : s \in Shapes}

ColorImages ==
    UNION {[height : {s[1]}, width : {s[2]}, is_color : {TRUE}, dtype : DTypes,
            data : [Range(s[1] * s[2]) -> ColorPixelValues]] :
           s \in {t \in Shapes : t[1] * t[2] <= MaxColorPixels}}

Images == GrayImages \cup ColorImages

\* 2-row, 4-column single-channel buffers of two pixel values
WideImages ==
    [height : {2}, width : {4}, is_color : {FALSE}, dtype : DTypes,
     data : [Range(8) -> {0, 16}]]

----------------------------------------------------------------------------
(* src/src/fh_segmentation.py: create_graph *)

\* image[y, x] - image[y', x'] on scalars of the buffer's element type
Subtract(dtype, p, q) == IF dtype = "uint8" THEN (p - q) % 256 ELSE p - q

\* d ** 2 on a scalar of the buffer's element type
Square(dtype, d) == IF dtype = "uint8" THEN (d * d) % 256 ELSE d * d

\* np.sum of a vector: the accumulator is 64 bits wide
RECURSIVE Sum(_)
Sum(s) == IF s = <<>> THEN 0 ELSE Head(s) + Sum(Tail(s))

\* The squared difference of the pixels of index a and b in exact arithmetic,
\* whatever the element type: the weight the claims speak of, used only to
\* state them.
diffExact(img, a, b) ==
    IF img.is_color
    THEN Sum([c \in DOMAIN img.data[a] |->
                (img.data[a][c] - img.data[b][c]) * (img.data[a][c] - img.data[b][c])])
    ELSE (img.data[a] - img.data[b]) * (img.data[a] - img.data[b])

\* diff of create_graph for the pixels of index a and b
diff(img, a, b) ==
    IF img.is_color
    THEN Sum([c \in DOMAIN img.data[a] |->
                Square(img.dtype, Subtract(img.dtype, img.data[a][c], img.data[b][c]))])
    ELSE Square(img.dtype, Subtract(img.dtype, img.data[a], img.data[b]))

\* the edges of a pixel with the edge to the pixel below left out
pixelEdgesRightOnly(img, u) ==
    IF u % img.width < img.width - 1 THEN <<<<diff(img, u, u + 1), u, u + 1>>>> ELSE <<>>

\* the edges of a pixel with an edge to the pixel below and to the right
\* added
pixelEdgesDiagonal(img, u) ==
    LET x == u % img.width
        y == u \div img.width
        right == IF x < img.width - 1 THEN <<<<diff(img, u, u + 1), u, u + 1>>>> ELSE <<>>
        below == IF y < img.height - 1
                 THEN <<<<diff(img, u, u + img.width), u, u + img.width>>>>
                 ELSE <<>>
        across == IF x < img.width - 1 /\ y < img.height - 1
                  THEN <<<<diff(img, u, u + img.width + 1), u, u + img.width + 1>>>>
                  ELSE <<>>
    IN  right \o below \o across

\* The edges appended for the pixel of index u, the right neighbour first.
PixelEdges(img, u) ==
    LET x == u % img.width
        y == u \div img.width
        right == IF x < img.width - 1 THEN <<<<diff(img, u, u + 1), u, u + 1>>>> ELSE <<>>
        below == IF y < img.height - 1
                 THEN <<<<diff(img, u, u + img.width), u, u + img.width>>>>
                 ELSE <<>>
    IN  right \o below

\* The list edges of create_graph before the sort: pixels u, u+1, ..., n-1.
RECURSIVE RawEdges(_, _)
RawEdges(img, u) ==
    IF u >= img.height * img.width THEN <<>>
    ELSE PixelEdges(img, u) \o RawEdges(img, u + 1)

\* Python's order on the tuples (diff, u, v)
TupleLess(a, b) ==
    \/ a[1] < b[1]
    \/ a[1] = b[1] /\ a[2] < b[2]
    \/ a[1] = b[1] /\ a[2] = b[2] /\ a[3] < b[3]

\* e put at its place in the sorted list s
RECURSIVE Insert(_, _)
Insert(s, e) ==
    IF s = <<>> THEN <<e>>
    ELSE IF TupleLess(e, Head(s)) THEN <<e>> \o s
    ELSE <<Head(s)>> \o Insert(Tail(s), e)

\* the list returned without being sorted
unsorted(s) == s

\* sorted(edges): no two edges are equal as tuples, so the result is the one
\* ascending arrangement of the list
RECURSIVE sorted(_)
sorted(s) == IF s = <<>> THEN <<>> ELSE Insert(sorted(Tail(s)), Head(s))

create_graph(img) == sorted(RawEdges(img, 0))

----------------------------------------------------------------------------
(* src/src/union_find.py: get_component_sizes, get_largest_components *)

\* find(0), find(1), ..., find(n-1) in turn, from index i on: the parent
\* array they leave.
RECURSIVE FindAll(_, _)
FindAll(par, i) ==
    IF i \notin DOMAIN par THEN par ELSE FindAll(find(par, i).parent, i + 1)

\* component sizes read off the painted buffer (its first channel), one entry
\* per color
sizesFromColors(par) ==
    LET label == [i \in DOMAIN segmented_image |->
                    IF image.is_color THEN segmented_image[i][1]
                    ELSE segmented_image[i]]
    IN  [parent |-> FindAll(par, 0),
         sizes |-> [c \in {label[i] : i \in DOMAIN label} |->
                      Cardinality({i \in DOMAIN label : label[i] = c})]]

\* get_component_sizes counting the members of a component without its root
sizesWithoutRoot(par) ==
    LET after == FindAll(par, 0)
    IN  [parent |-> after,
         sizes |-> [r \in {after[i] : i \in DOMAIN par} |->
                      Cardinality({i \in DOMAIN par : after[i] = r /\ i # r})]]

\* UnionFind.get_component_sizes: the parent array after the call, and the
\* dict returned. Every find(i) of the list comprehension returns the root
\* of i, which no find changes.
get_component_sizes(par) ==
    LET after == FindAll(par, 0)
        roots == [i \in DOMAIN par |-> after[i]]
    IN  [parent |-> after,
         sizes |-> [r \in {roots[i] : i \in DOMAIN par} |->
                      Cardinality({i \in DOMAIN par : roots[i] = r})]]

\* the sort by size without reverse=True: the smallest component first
RECURSIVE sortBySizeAscending(_, _)
sortBySizeAscending(sizes, S) ==
    IF S = {} THEN <<>>
    ELSE LET first == CHOOSE r \in S : \A q \in S :
                         \/ sizes[r] < sizes[q]
                         \/ sizes[r] = sizes[q] /\ r <= q
         IN  <<[root |-> first, size |-> sizes[first]]>> \o
             sortBySizeAscending(sizes, S \ {first})

\* the sort by size with components of equal size in descending order of
\* root, as a sort that reverses the ascending list would leave them
RECURSIVE sortBySizeTiesReversed(_, _)
sortBySizeTiesReversed(sizes, S) ==
    IF S = {} THEN <<>>
    ELSE LET first == CHOOSE r \in S : \A q \in S :
                         \/ sizes[r] > sizes[q]
                         \/ sizes[r] = sizes[q] /\ r >= q
         IN  <<[root |-> first, size |-> sizes[first]]>> \o
             sortBySizeTiesReversed(sizes, S \ {first})

\* sorted(component_sizes.items(), key=size, reverse=True): a stable sort of
\* items that np.unique lists by ascending root.
RECURSIVE SortBySize(_, _)
SortBySize(sizes, S) ==
    IF S = {} THEN <<>>
    ELSE LET first == CHOOSE r \in S : \A q \in S :
                         \/ sizes[r] > sizes[q]
                         \/ sizes[r] = sizes[q] /\ r <= q
         IN  <<[root |-> first, size |-> sizes[first]]>> \o
             SortBySize(sizes, S \ {first})

\* get_largest_components with the slice [:n] left out
largestAll(par, n) ==
    LET cs == get_component_sizes(par)
        sorted_components == SortBySize(cs.sizes, DOMAIN cs.sizes)
    IN  [parent |-> cs.parent,
         error |-> IF sorted_components = <<>> THEN "ValueError" ELSE "",
         components |-> sorted_components]

\* UnionFind.get_largest_components(n), n >= 1: the parent array after the
\* call and the components returned, or the ValueError of unpacking zip(*[])
\* when the forest has no component.
get_largest_components(par, n) ==
    LET cs == get_component_sizes(par)
        sorted_components == SortBySize(cs.sizes, DOMAIN cs.sizes)
    IN  IF sorted_components = <<>>
        THEN [parent |-> cs.parent, error |-> "ValueError", components |-> <<>>]
        ELSE IF Len(sorted_components) >= n
        THEN [parent |-> cs.parent, error |-> "",
              components |-> SubSeq(sorted_components, 1, n)]
        ELSE [parent |-> cs.parent, error |-> "", components |-> sorted_components]

----------------------------------------------------------------------------
(* The forest driven by a client that calls find with any integer, union    *)
(* with valid indices and get_largest_components, on a forest of any size   *)
(* up to MaxClientSize.                                                     *)

MaxClientSize == 4    \* the largest forest of the client specification

\* Arguments n of get_largest_components: fewer than, as many as and more
\* than the components of a forest; 9 is the default.
Ns == {1, 2, 9}

InitClient ==
    /\ \E size \in 0 .. MaxClientSize :
          /\ parent = NewParent(size)
          /\ rank = NewRank(size)
          /\ num_sets = size
    /\ call = NoCall
    /\ image = Idle
    /\ k = 0
    /\ min_size = 0
    /\ pc = "client"
    /\ edges = <<>>
    /\ idx = 0
    /\ threshold = <<>>
    /\ pass1_num_sets = -1
    /\ component_colors = <<>>
    /\ segmented_image = <<>>
    /\ top_n = 0
    /\ analysis = <<>>
    /\ run = 1
    /\ prev = <<>>

LargestCall(n) ==
    /\ pc = "client"
    /\ LET g == get_largest_components(parent, n)
       IN  /\ parent' = g.parent
           /\ call' = [op |-> "largest", i |-> n, j |-> n, ret |-> g.components,
                       error |-> g.error]
    /\ UNCHANGED <<rank, num_sets>>
    /\ UNCHANGED runVars

\* The indices a client may pass to find: every valid one, and the integers
\* on either side of the valid ones down to -size - 1 and up to size + 1.
NextClient ==
    \/ \E i \in (0 - Cardinality(DOMAIN parent) - 1) .. (Cardinality(DOMAIN parent) + 1) :
          FindCall(i)
    \/ \E i, j \in DOMAIN parent : UnionCall(i, j)
    \/ \E n \in Ns : LargestCall(n)

SpecClient == InitClient /\ [][NextClient]_vars

----------------------------------------------------------------------------
(* src/src/fh_segmentation.py: felzenszwalb_huttenlocher, analyze_segments *)

NewThreshold(n, kk) == [i \in Range(n) |-> kk]

\* the threshold written at root_u, the root found before the union, where
\* the code writes it at find(root_u), the root after the union
updateThresholdAtOldRoot(thr, root_u, new_root, weight, kk) ==
    [thr EXCEPT ![root_u] = weight + kk]

\* new_root = uf.find(root_u); threshold[new_root] = weight + float(k)
UpdateThreshold(thr, root_u, new_root, weight, kk) ==
    [thr EXCEPT ![new_root] = weight + kk]

\* the merge test of the first loop with < for <=
mergeTestStrict(w, tu, tv) == w < Min(tu, tv)

\* the merge test of the first loop with the comparison turned around
mergeTestReversed(w, tu, tv) == w >= Min(tu, tv)

\* the merge test of the first loop: weight <= MInt
MergeTest(w, tu, tv) == w <= Min(tu, tv)

\* The number of indices whose find resolves to root: the size the claims
\* speak of, used only to state them.
sizeByFind(par, root) == Cardinality({i \in DOMAIN par : Root(par, i) = root})

\* np.sum(uf.parent == root) of the second loop
SizeInParent(par, root) == Cardinality({i \in DOMAIN par : par[i] = root})

\* the size test of the second loop with and for or
smallTestBoth(size_u, size_v, ms) == size_u < ms /\ size_v < ms

\* the size test of the second loop
SmallTest(size_u, size_v, ms) == size_u < ms \/ size_v < ms

\* the test min_size > 0 turned around
afterPass1Inverted(es, ms) == IF ms <= 0 /\ Len(es) > 0 THEN "pass2" ELSE "paint"

\* Where the run goes when the first loop has ended.
AfterPass1(es, ms) == IF ms > 0 /\ Len(es) > 0 THEN "pass2" ELSE "paint"

Start(img, kk, ms) ==
    /\ image = img
    /\ k = kk
    /\ min_size = ms
    /\ pc = "start"
    /\ parent = <<>>
    /\ rank = <<>>
    /\ num_sets = 0
    /\ call = NoCall
    /\ edges = <<>>
    /\ idx = 0
    /\ threshold = <<>>
    /\ pass1_num_sets = -1
    /\ component_colors = <<>>
    /\ segmented_image = <<>>
    /\ top_n = 0
    /\ analysis = <<>>
    /\ run = 1
    /\ prev = <<>>

Init == \E img \in Images, kk \in Ks, ms \in MinSizes : Start(img, kk, ms)

\* The inputs of the specification of two runs: the buffers of 8-bit pixels.
InitTwoRuns ==
    \E img \in {b \in Images : b.dtype = "uint8"}, kk \in Ks, ms \in MinSizes :
        Start(img, kk, ms)

InitWide == \E img \in WideImages, kk \in Ks : Start(img, kk, 4)

\* Lines 72-88: the graph, the forest and the thresholds.
Setup ==
    /\ pc = "start"
    /\ LET num_pixels == image.height * image.width
           es == create_graph(image)
       IN  /\ edges' = es
           /\ parent' = NewParent(num_pixels)
           /\ rank' = NewRank(num_pixels)
           /\ num_sets' = num_pixels
           /\ threshold' = NewThreshold(num_pixels, k)
           /\ idx' = 1
           /\ pc' = IF Len(es) > 0 THEN "pass1" ELSE AfterPass1(es, min_size)
           /\ pass1_num_sets' = IF Len(es) > 0 THEN -1 ELSE num_pixels
    /\ UNCHANGED <<call, image, k, min_size, component_colors, segmented_image,
                   top_n, analysis, run, prev>>

\* Lines 91-100: one iteration of the first loop.
Pass1Step ==
    /\ pc = "pass1"
    /\ LET weight == edges[idx][1]
           fu == find(parent, edges[idx][2])
           fv == find(fu.parent, edges[idx][3])
           root_u == fu.root
           root_v == fv.root
           merge == /\ root_u # root_v
                    /\ MergeTest(weight, threshold[root_u], threshold[root_v])
           un == union([parent |-> fv.parent, rank |-> rank, num_sets |-> num_sets],
                       root_u, root_v)
           fn == find(un.parent, root_u)
           last == idx = Len(edges)
       IN  /\ parent' = IF merge THEN fn.parent ELSE fv.parent
           /\ rank' = IF merge THEN un.rank ELSE rank
           /\ num_sets' = IF merge THEN un.num_sets ELSE num_sets
           /\ threshold' = IF merge
                           THEN UpdateThreshold(threshold, root_u, fn.root, weight, k)
                           ELSE threshold
           /\ idx' = IF last THEN 1 ELSE idx + 1
           /\ pc' = IF last THEN AfterPass1(edges, min_size) ELSE "pass1"
           /\ pass1_num_sets' = IF last
                                THEN (IF merge THEN un.num_sets ELSE num_sets)
                                ELSE pass1_num_sets
    /\ UNCHANGED <<call, image, k, min_size, edges, component_colors,
                   segmented_image, top_n, analysis, run, prev>>

\* Lines 104-113: one iteration of the second loop.
Pass2Step ==
    /\ pc = "pass2"
    /\ LET fu == find(parent, edges[idx][2])
           fv == find(fu.parent, edges[idx][3])
           root_u == fu.root
           root_v == fv.root
           size_u == SizeInParent(fv.parent, root_u)
           size_v == SizeInParent(fv.parent, root_v)
           merge == root_u # root_v /\ SmallTest(size_u, size_v, min_size)
           un == union([parent |-> fv.parent, rank |-> rank, num_sets |-> num_sets],
                       root_u, root_v)
           last == idx = Len(edges)
       IN  /\ parent' = IF merge THEN un.parent ELSE fv.parent
           /\ rank' = IF merge THEN un.rank ELSE rank
           /\ num_sets' = IF merge THEN un.num_sets ELSE num_sets
           /\ idx' = IF last THEN 1 ELSE idx + 1
           /\ pc' = IF last THEN "paint" ELSE "pass2"
    /\ UNCHANGED <<call, image, k, min_size, edges, threshold, pass1_num_sets,
                   component_colors, segmented_image, top_n, analysis, run, prev>>

\* the painting loop reading uf.parent[i] where it calls uf.find(i)
paintWithoutFinds(par) == par

\* The find(y * width + x) calls of the painting loop, one per pixel in raster
\* order: the parent array they leave, in which every entry is a root.
PaintFinds(par) == FindAll(par, 0)

\* the painting loop coloring the pixel that is the root of its component and
\* leaving every other pixel at the zero of np.zeros_like
paintedRootsOnly(after, cc) ==
    [i \in DOMAIN after |->
        IF after[i] = i THEN cc[i]
        ELSE IF image.is_color THEN <<0, 0, 0>> ELSE 0]

\* segmented_image[y, x] = component_colors[root] for every pixel
Painted(after, cc) == [i \in DOMAIN after |-> cc[after[i]]]

\* Lines 116-134: the painting loop and the return. Each root gets the color
\* drawn when the raster scan first meets it; the draws are independent, so
\* any assignment of drawn colors to the roots can come out. In a 3-D buffer
\* the color is a vector of 3 elements, which numpy can store in a pixel of 3
\* channels only: with any other channel count the assignment of line 129
\* raises ValueError at the first pixel, after find(0) and one draw.
Paint ==
    /\ pc = "paint"
    /\ LET after == PaintFinds(parent)
           palette == IF image.is_color THEN ColorVectors ELSE Colors
           fits == \/ ~image.is_color
                   \/ DOMAIN image.data = {}
                   \/ Len(image.data[0]) = 3
           first == find(parent, 0)
       IN  IF fits
           THEN /\ parent' = after
                /\ \E cc \in [{after[i] : i \in DOMAIN after} -> palette] :
                      /\ component_colors' = cc
                      /\ segmented_image' = Painted(after, cc)
                /\ pc' = "done"
           ELSE /\ parent' = first.parent
                /\ \E c \in palette : component_colors' = [r \in {first.root} |-> c]
                /\ segmented_image' =
                      [i \in DOMAIN parent |-> [ch \in DOMAIN image.data[0] |-> 0]]
                /\ pc' = "raised"
    /\ UNCHANGED <<rank, num_sets, call, image, k, min_size, edges, idx, threshold,
                   pass1_num_sets, top_n, analysis, run, prev>>

\* analyze_segments(image, uf, n) on what the run returned.
Analyze ==
    /\ pc = "done"
    /\ \E n \in TopNs :
          LET num_pixels == image.height * image.width
              largest == get_largest_components(parent, n)
              cs == get_component_sizes(largest.parent)
              zero == IF image.is_color THEN <<0, 0, 0>> ELSE 0
              mask(root) == [j \in Range(num_pixels) |-> find(cs.parent, j).root = root]
          IN  /\ top_n' = n
              /\ parent' = cs.parent
              /\ IF largest.error # ""
                 THEN /\ analysis' = [error |-> largest.error]
                      /\ pc' = "failed"
                 ELSE /\ analysis' =
                           [total_segments |-> num_sets,
                            largest_segments |->
                               [p \in DOMAIN largest.components |->
                                  [j \in Range(num_pixels) |->
                                     IF mask(largest.components[p].root)[j]
                                     THEN image.data[j] ELSE zero]],
                            segment_info |->
                               [p \in DOMAIN largest.components |->
                                  [id |-> p,
                                   root |-> largest.components[p].root,
                                   size |-> largest.components[p].size,
                                   mask |-> mask(largest.components[p].root)]],
                            component_sizes |-> cs.sizes]
                      /\ pc' = "analyzed"
    /\ UNCHANGED <<rank, num_sets, call, image, k, min_size, edges, idx, threshold,
                   pass1_num_sets, component_colors, segmented_image, run, prev>>

\* The caller runs the segmentation and the analysis once more on the same
\* buffer with the same parameters; the second call builds its forest, its
\* thresholds and its buffers anew.
Rerun ==
    /\ pc = "analyzed"
    /\ run = 1
    /\ run' = 2
    /\ prev' = [num_sets |-> num_sets,
                component_sizes |-> analysis.component_sizes,
                first_color |-> IF DOMAIN segmented_image = {} THEN <<>>
                                ELSE segmented_image[0]]
    /\ pc' = "start"
    /\ parent' = <<>>
    /\ rank' = <<>>
    /\ num_sets' = 0
    /\ edges' = <<>>
    /\ idx' = 0
    /\ threshold' = <<>>
    /\ pass1_num_sets' = -1
    /\ component_colors' = <<>>
    /\ segmented_image' = <<>>
    /\ top_n' = 0
    /\ analysis' = <<>>
    /\ UNCHANGED <<call, image, k, min_size>>

Next == Setup \/ Pass1Step \/ Pass2Step \/ Paint \/ Analyze

NextTwoRuns == Next \/ Rerun

Spec == Init /\ [][Next]_vars

SpecWide == InitWide /\ [][Next]_vars

SpecTwoRuns == InitTwoRuns /\ [][NextTwoRuns]_vars

\* The default of the parameter k.
DefaultK == 50

\* 2-row, 2-column single-channel buffers
SquareImages ==
    [height : {2}, width : {2}, is_color : {FALSE}, dtype : DTypes,
     data : [Range(4) -> PixelValues]]

\* Runs on a 2 x 2 buffer with k left at its default.
InitDefaultK == \E img \in SquareImages, ms \in MinSizes : Start(img, DefaultK, ms)

SpecDefaultK == InitDefaultK /\ [][Next]_vars

\* The 2-row, 4-column single-channel buffer [[9, 9, 8, 3], [9, 1, 4, 0]].
HillData == <<9, 9, 8, 3, 9, 1, 4, 0>>

HillImages ==
    [height : {2}, width : {4}, is_color : {FALSE}, dtype : DTypes,
     data : {[i \in Range(8) |-> HillData[i + 1]]}]

\* The values of k the caller compares.
RisingKs == {5, 11, 256}

\* The values of min_size of the comparison.
CleanupSizes == {0, 3}

InitTwoKs ==
    \E img \in GrayImages \cup HillImages, kk \in RisingKs, ms \in CleanupSizes :
        Start(img, kk, ms)

\* The caller runs the segmentation once more on the same buffer with the
\* same min_size and a higher k, keeping the segment count of the first run.
RerunHigherK ==
    /\ pc = "done"
    /\ run = 1
    /\ \E kk \in RisingKs : kk > k /\ k' = kk
    /\ run' = 2
    /\ prev' = [num_sets |-> num_sets, k |-> k]
    /\ pc' = "start"
    /\ parent' = <<>>
    /\ rank' = <<>>
    /\ num_sets' = 0
    /\ edges' = <<>>
    /\ idx' = 0
    /\ threshold' = <<>>
    /\ pass1_num_sets' = -1
    /\ component_colors' = <<>>
    /\ segmented_image' = <<>>
    /\ UNCHANGED <<call, image, min_size, top_n, analysis>>

NextTwoKs == Setup \/ Pass1Step \/ Pass2Step \/ Paint \/ RerunHigherK

SpecTwoKs == InitTwoKs /\ [][NextTwoKs]_vars

\* Values of min_size that skip the second loop, and one that does not.
CleanupOrNot == {-1, 0, 2}

\* Runs on single-channel buffers with min_size below, at and above 0.
InitCleanupOrNot ==
    \E img \in GrayImages, kk \in Ks, ms \in CleanupOrNot : Start(img, kk, ms)

\* felzenszwalb_huttenlocher alone, without the analysis of what it returns.
NextSegment == Setup \/ Pass1Step \/ Pass2Step \/ Paint

SpecCleanupOrNot == InitCleanupOrNot /\ [][NextSegment]_vars

\* Channel counts of a 3-D buffer.
ChannelCounts == {1, 2, 3, 4}

\* 3-D buffers of every channel count, each pixel all 0 or all 255.
ChannelImages ==
    UNION {[height : {s[1]}, width : {s[2]}, is_color : {TRUE}, dtype : DTypes,
            data : [Range(s[1] * s[2]) ->
                      {[ch \in 1 .. c |-> v] : v \in {0, 255}}]] :
           s \in {t \in Shapes : t[1] * t[2] <= MaxColorPixels}, c \in ChannelCounts}

InitChannels == \E img \in ChannelImages, kk \in Ks, ms \in MinSizes : Start(img, kk, ms)

SpecChannels == InitChannels /\ [][Next]_vars

----------------------------------------------------------------------------
(* Claims about the forest *)

\* C1: after any sequence of union and find calls, find(find(i)) = find(i)
\* for every index i, and num_sets is the number of distinct values find
\* returns over all indices.
C1_PartitionInvariant ==
    pc = "client" =>
        /\ \A i \in DOMAIN parent :
              LET f1 == find(parent, i)
                  f2 == find(f1.parent, f1.root)
              IN  f2.root = f1.root
        /\ num_sets = Cardinality({find(parent, i).root : i \in DOMAIN parent})

C1_Witness ==
    /\ pc = "client"
    /\ call.op = "union"
    /\ num_sets = 2
    /\ \E i \in DOMAIN parent : parent[parent[i]] # parent[i]

\* C2: union(i, j) lowers num_sets by exactly 1 when i and j were in different
\* sets and leaves it unchanged when they were in the same set; either way
\* find(i) = find(j) afterwards.
C2_UnionCount ==
    [][(pc = "client" /\ call'.op = "union" /\ pc' = "client") =>
          /\ num_sets' = num_sets -
                (IF Root(parent, call'.i) # Root(parent, call'.j) THEN 1 ELSE 0)
          /\ find(parent', call'.i).root = find(parent', call'.j).root]_vars

C2_Witness ==
    /\ pc = "client"
    /\ call.op = "union"
    /\ call.i # call.j
    /\ num_sets = Cardinality(DOMAIN parent) - 2

\* The indices on the parent chain from i to its root, both included.
RECURSIVE Chain(_, _)
Chain(par, i) == IF par[i] = i THEN {i} ELSE {i} \cup Chain(par, par[i])

\* The parent array once the chains of i and j are compressed, as the two
\* find calls of union leave it.
Compressed(par, i, j) ==
    [x \in DOMAIN par |->
        IF x \in Chain(par, i) \cup Chain(par, j) THEN Root(par, x) ELSE par[x]]

\* C24: when union(i, j) joins two different sets of roots ri = find(i) and
\* rj = find(j): with rank[ri] < rank[rj], ri is attached under rj; with
\* rank[ri] > rank[rj], rj is attached under ri; with equal ranks rj is
\* attached under ri and rank[ri] grows by exactly 1; no other parent or rank
\* entry changes, except the parent entries the two find calls compress.
C24_UnionByRank ==
    [][(pc = "client" /\ call'.op = "union"
            /\ Root(parent, call'.i) # Root(parent, call'.j)) =>
          LET ri == Root(parent, call'.i)
              rj == Root(parent, call'.j)
              base == Compressed(parent, call'.i, call'.j)
          IN  /\ rank[ri] < rank[rj] =>
                    parent' = [base EXCEPT ![ri] = rj] /\ rank' = rank
              /\ rank[ri] > rank[rj] =>
                    parent' = [base EXCEPT ![rj] = ri] /\ rank' = rank
              /\ rank[ri] = rank[rj] =>
                    /\ parent' = [base EXCEPT ![rj] = ri]
                    /\ rank' = [rank EXCEPT ![ri] = rank[ri] + 1]]_vars

C24_Witness ==
    /\ pc = "client"
    /\ call.op = "union"
    /\ Cardinality(DOMAIN parent) = 3
    /\ num_sets = 1
    /\ parent[call.i] = call.j
    /\ rank[call.i] = 0
    /\ rank[call.j] = 1
    /\ \E x \in DOMAIN parent : x # call.i /\ x # call.j /\ parent[x] = call.j

\* C25: find(i) returns the root r of the set of i, and afterwards every node
\* on the parent chain from i to r, i included, has parent r; find changes no
\* rank, does not change num_sets and does not change the root of any index.
C25_PathCompression ==
    [][(pc = "client" /\ call'.op = "find" /\ call'.i \in DOMAIN parent) =>
          LET r == Root(parent, call'.i)
          IN  /\ call'.ret = Value(r)
              /\ \A x \in Chain(parent, call'.i) : parent'[x] = r
              /\ rank' = rank
              /\ num_sets' = num_sets
              /\ \A x \in DOMAIN parent : Root(parent', x) = Root(parent, x)]_vars

C25_Witness ==
    /\ pc = "client"
    /\ call.op = "find"
    /\ rank[call.i] = 0
    /\ \E p \in DOMAIN parent :
          /\ p # call.i
          /\ rank[p] = 1
          /\ parent[p] # p
          /\ parent[call.i] = parent[p]
          /\ \A x \in DOMAIN parent : parent[x] # p

\* following parent from i for n steps
RECURSIVE Climb(_, _, _)
Climb(par, i, n) == IF n = 0 THEN i ELSE Climb(par, par[i], n - 1)

\* C30: after any sequence of union and find calls every non-root index x
\* has rank[parent[x]] > rank[x]; so the parent pointers hold no cycle but the
\* self-loops of the roots, and following parent from any index reaches a
\* root in at most size steps, which is why the recursive find terminates.
C30_RankGrows ==
    pc = "client" =>
        \A x \in DOMAIN parent :
            /\ parent[x] # x => rank[parent[x]] > rank[x]
            /\ LET top == Climb(parent, x, Cardinality(DOMAIN parent))
               IN  parent[top] = top /\ top = find(parent, x).root

C30_Witness ==
    /\ pc = "client"
    /\ call.op = "union"
    /\ \E x \in DOMAIN parent :
          /\ parent[x] # x
          /\ parent[parent[x]] # parent[x]
          /\ rank[x] = 0
          /\ rank[parent[x]] = 1
          /\ rank[parent[parent[x]]] = 2

\* C14: for every forest with at least one element and every n >= 1,
\* get_largest_components(n) returns min(n, number of components) components
\* without error, their sizes in non-increasing order, each the size of a
\* distinct component and at least the size of every component not returned.
C14_LargestComponents ==
    (pc = "client" /\ call.op = "largest" /\ DOMAIN parent # {}) =>
        LET res == call.ret
            returned == {res[p].root : p \in DOMAIN res}
        IN  /\ call.error = ""
            /\ Len(res) = Min(call.i, Cardinality(Roots(parent)))
            /\ Cardinality(returned) = Len(res)
            /\ returned \subseteq Roots(parent)
            /\ \A p \in DOMAIN res :
                  /\ res[p].size = Cardinality(Members(parent, res[p].root))
                  /\ p > 1 => res[p - 1].size >= res[p].size
                  /\ \A r \in Roots(parent) \ returned :
                        res[p].size >= Cardinality(Members(parent, r))

C14_Witness ==
    /\ pc = "client"
    /\ call.op = "largest"
    /\ call.i = 2
    /\ Cardinality(Roots(parent)) = 3
    /\ Len(call.ret) = 2
    /\ call.ret[1].size = 2
    /\ call.ret[2].size = 1

\* C26: in the result of get_largest_components(n) components of equal size
\* appear in ascending order of root, so the result is the list of the
\* components of the forest by descending size, then ascending root, cut to
\* its first n entries.
C26_TiesByRoot ==
    (pc = "client" /\ call.op = "largest" /\ call.error = "") =>
        LET res == call.ret
            Before(a, b) == a.size > b.size \/ (a.size = b.size /\ a.root < b.root)
            all == {[root |-> r, size |-> Cardinality(Members(parent, r))] :
                       r \in Roots(parent)}
        IN  /\ \A p \in DOMAIN res : \A q \in DOMAIN res :
                  p < q => Before(res[p], res[q])
            /\ \A p \in DOMAIN res :
                  /\ res[p] \in all
                  /\ \A c \in all :
                        Before(c, res[p]) => \E q \in DOMAIN res : q < p /\ res[q] = c

C26_Witness ==
    /\ pc = "client"
    /\ call.op = "largest"
    /\ Len(call.ret) = 3
    /\ call.ret[1].size = 2
    /\ call.ret[2].size = 1
    /\ call.ret[3].size = 1
    /\ call.ret[1].root > call.ret[2].root
    /\ call.ret[2].root < call.ret[3].root

\* C17: find(i) signals IndexError for every i outside [0, size), i >= size
\* and i < 0 alike, and then leaves parent, rank and num_sets unchanged; for i
\* in range it returns the root of i without error.
C17_FindOutOfRange ==
    [][(pc = "client" /\ call'.op = "find") =>
          IF call'.i \in DOMAIN parent
          THEN call'.error = "" /\ call'.ret = Value(Root(parent, call'.i))
          ELSE call'.error = "IndexError" /\ UNCHANGED ufVars]_vars

\* C18: union(i, j) returns the root of the merged set when i and j were in
\* different sets, and a no-merge signal that is no root when they were in
\* the same set.
C18_UnionReturn ==
    [][(pc = "client" /\ call'.op = "union") =>
          IF Root(parent, call'.i) # Root(parent, call'.j)
          THEN call'.ret = Value(Root(parent', call'.i))
          ELSE call'.ret \notin {Value(r) : r \in DOMAIN parent}]_vars

----------------------------------------------------------------------------
(* Claims about the segmentation run *)

\* The edge the running loop is about to process.
CurWeight == edges[idx][1]
CurU == edges[idx][2]
CurV == edges[idx][3]

SameSet(par, i, j) == Root(par, i) = Root(par, j)

\* The step joined the components of the roots ru and rv and changed no
\* other component.
Joined(ru, rv) ==
    \A i, j \in DOMAIN parent :
        SameSet(parent', i, j) <=>
            \/ SameSet(parent, i, j)
            \/ {Root(parent, i), Root(parent, j)} = {ru, rv}

\* The step left every component as it was.
PartitionKept ==
    \A i, j \in DOMAIN parent : SameSet(parent', i, j) <=> SameSet(parent, i, j)

\* C3: in Pass 1 the edges are taken in ascending weight order; the edge
\* (w, u, v) merges the components of u and v exactly when ru = find(u) and
\* rv = find(v) differ and w <= min(threshold[ru], threshold[rv]) as read when
\* the edge is processed; after a merge the threshold at the root of the
\* merged component is w + k; nothing else is merged.
C3_Pass1Merge ==
    [][pc = "pass1" =>
          LET ru == Root(parent, CurU)
              rv == Root(parent, CurV)
              should == ru # rv /\ CurWeight <= Min(threshold[ru], threshold[rv])
          IN  /\ idx > 1 => edges[idx - 1][1] <= CurWeight
              /\ should =>
                    /\ Joined(ru, rv)
                    /\ num_sets' = num_sets - 1
                    /\ threshold'[Root(parent', CurU)] = CurWeight + k
              /\ ~should =>
                    /\ PartitionKept
                    /\ num_sets' = num_sets
                    /\ threshold' = threshold]_vars

C3_Witness ==
    /\ pc = "pass1"
    /\ idx > 1
    /\ edges[idx - 1][1] > 0
    /\ SameSet(parent, edges[idx - 1][2], edges[idx - 1][3])
    /\ threshold[Root(parent, edges[idx - 1][2])] = edges[idx - 1][1] + k
    /\ num_sets > 1

\* C4: in Pass 2 an edge whose endpoints lie in different components merges
\* them exactly when at least one of the two components has fewer than
\* min_size pixels, the size of a component being the number of indices whose
\* find resolves to its root; two components of at least min_size pixels each
\* are never merged.
C4_Pass2Merge ==
    [][pc = "pass2" =>
          LET ru == Root(parent, CurU)
              rv == Root(parent, CurV)
              should == /\ ru # rv
                        /\ \/ sizeByFind(parent, ru) < min_size
                           \/ sizeByFind(parent, rv) < min_size
          IN  /\ should => Joined(ru, rv) /\ num_sets' = num_sets - 1
              /\ ~should => PartitionKept /\ num_sets' = num_sets]_vars

\* C5: with min_size > 0, when segment has returned every component holds at
\* least min_size pixels or is the only component.
C5_MinSizeFloor ==
    (pc \in {"done", "analyzed"} /\ min_size > 0) =>
        \A r \in Roots(parent) :
            \/ Cardinality(Members(parent, r)) >= min_size
            \/ Roots(parent) = {r}

C5_Witness ==
    /\ pc = "done"
    /\ min_size = 2
    /\ Cardinality(Roots(parent)) = 2
    /\ pass1_num_sets = 3

\* The 1-row, 4-column single-channel buffer [0, 0, 255, 255].
IsStepImage ==
    /\ image.height = 1
    /\ image.width = 4
    /\ ~image.is_color
    /\ image.data = [i \in Range(4) |-> IF i < 2 THEN 0 ELSE 255]

\* C6: on [0, 0, 255, 255] with k = 10 and min_size = 0, whatever the element
\* type, segment returns 2 segments: pixels 0 and 1 share a root, pixels 2 and
\* 3 share another.
C6_StepImageTwoSegments ==
    (pc = "done" /\ IsStepImage /\ k = 10 /\ min_size = 0) =>
        /\ num_sets = 2
        /\ SameSet(parent, 0, 1)
        /\ SameSet(parent, 2, 3)
        /\ ~SameSet(parent, 1, 2)

\* C7: every edge the graph builder produces carries the exact squared
\* difference of its two pixels (summed over the channels of a multi-channel
\* buffer), 8-bit unsigned pixels included.
C7_ExactWeights ==
    pc # "start" =>
        \A p \in DOMAIN edges : edges[p][1] = diffExact(image, edges[p][2], edges[p][3])

C9_Monotone ==
    /\ [](pc \in {"paint", "done", "analyzed"} => pass1_num_sets >= num_sets)
    /\ [][(pc \in {"pass1", "pass2"}) => (num_sets' <= num_sets)]_vars

C9_Witness ==
    /\ pc = "paint"
    /\ min_size > 0
    /\ pass1_num_sets > num_sets
    /\ pass1_num_sets < Cardinality(DOMAIN parent)

\* C10: on a non-empty buffer, with min_size larger than height * width, the
\* forest segment returns has num_sets = 1.
C10_AllMerged ==
    (pc = "done" /\ image.height * image.width > 0
                 /\ min_size > image.height * image.width) =>
        num_sets = 1

C10_Witness ==
    /\ pc = "done"
    /\ image.height * image.width = 4
    /\ min_size > 4
    /\ pass1_num_sets = 4
    /\ num_sets = 1

\* The 2-row, 2-column single-channel buffer [[0, 0], [0, 0]].
IsZeroSquare ==
    /\ image.height = 2
    /\ image.width = 2
    /\ ~image.is_color
    /\ image.data = [i \in Range(4) |-> 0]

\* C11: on the 2 x 2 single-channel buffer [[0, 0], [0, 0]] with k = 50,
\* min_size = 0 and sigma = 0, the forest segment returns has num_sets = 1.
C11_ZeroSquareOneSegment ==
    (pc = "done" /\ IsZeroSquare /\ k = DefaultK /\ min_size = 0) => num_sets = 1

C11_Witness ==
    /\ pc = "done"
    /\ IsZeroSquare
    /\ k = DefaultK
    /\ min_size = 0
    /\ Len(edges) = 4
    /\ pass1_num_sets = 1

\* C15: segment called with invalid input, a buffer with a zero-sized
\* dimension or k <= 0, fails at once with InvalidInput: it runs no step of
\* the algorithm and returns nothing.
C15_InvalidInputRejected ==
    (image.height = 0 \/ image.width = 0 \/ k <= 0) => pc \in {"start", "raised"}

\* The buffer is 3-D with 1, 2 or 4 channels.
UnsupportedChannels ==
    /\ image.is_color
    /\ DOMAIN image.data # {}
    /\ Len(image.data[0]) \in {1, 2, 4}

\* C16: segment called with a buffer of unsupported channel count (3-D with
\* 1, 2 or 4 channels) raises its error before the graph is built: it never
\* returns, and no edge is built and no union performed before the failure.
C16_ChannelsRejectedFirst ==
    UnsupportedChannels =>
        /\ pc \notin {"done", "analyzed", "failed"}
        /\ edges = <<>>
        /\ num_sets = Cardinality(DOMAIN parent)

----------------------------------------------------------------------------
(* Claims about the graph builder *)

\* The pairs of pixel indices (y*w + x, y*w + x + 1) and (y*w + x, (y+1)*w + x)
\* of an h-by-w grid.
AdjacentPairs(h, w) ==
    {<<y * w + x, y * w + x + 1>> : x \in 0 .. (w - 2), y \in 0 .. (h - 1)} \cup
    {<<y * w + x, (y + 1) * w + x>> : x \in 0 .. (w - 1), y \in 0 .. (h - 2)}

EdgePairs == {<<edges[p][2], edges[p][3]>> : p \in DOMAIN edges}

\* One edge per adjacent pair and nothing else, height*(width-1) +
\* width*(height-1) edges in all.
ExactlyTheAdjacentPairs ==
    /\ EdgePairs = AdjacentPairs(image.height, image.width)
    /\ Len(edges) = image.height * (image.width - 1) + image.width * (image.height - 1)
    /\ Cardinality(EdgePairs) = Len(edges)
    /\ \A p \in DOMAIN edges : edges[p][2] # edges[p][3]

C13_SortedEdges ==
    pc # "start" =>
        \A p \in DOMAIN edges : \A q \in DOMAIN edges :
            p < q =>
                /\ edges[p][1] <= edges[q][1]
                /\ edges[p][1] = edges[q][1] =>
                      \/ edges[p][2] < edges[q][2]
                      \/ edges[p][2] = edges[q][2] /\ edges[p][3] < edges[q][3]

C13_Witness ==
    /\ pc = "pass1"
    /\ edges # RawEdges(image, 0)
    /\ \E p \in DOMAIN edges : \E q \in DOMAIN edges :
          /\ q = p + 1
          /\ edges[p][1] = edges[q][1]
          /\ edges[p][2] > 0
    /\ \E p \in DOMAIN edges : edges[p][1] > edges[1][1]

----------------------------------------------------------------------------
(* Claims about the analyzer *)

\* The sum of the values of f over the keys in S.
RECURSIVE Total(_, _)
Total(f, S) ==
    IF S = {} THEN 0
    ELSE LET key == CHOOSE x \in S : TRUE IN f[key] + Total(f, S \ {key})

\* analyze raises (the ValueError of get_largest_components) on the forest of
\* a buffer without pixels only.
AnalyzeReturns == pc = "failed" => image.height * image.width = 0

\* C19: for the forest segment returned, the component_sizes analyze returns
\* has exactly the distinct roots of the forest as keys, each value is the
\* number of pixel indices whose find equals that root, the values sum to
\* height * width, and the number of keys equals total_segments, which is
\* num_sets. analyze returns for every buffer that has a pixel.
C19_ComponentSizes ==
    /\ AnalyzeReturns
    /\ pc = "analyzed" =>
        LET cs == analysis.component_sizes
        IN  /\ DOMAIN cs = Roots(parent)
            /\ \A r \in DOMAIN cs :
                  cs[r] = Cardinality({i \in DOMAIN parent : find(parent, i).root = r})
            /\ Total(cs, DOMAIN cs) = image.height * image.width
            /\ Cardinality(DOMAIN cs) = analysis.total_segments
            /\ analysis.total_segments = num_sets

C19_Witness ==
    /\ pc = "analyzed"
    /\ analysis.total_segments = 3
    /\ \E r \in DOMAIN analysis.component_sizes : analysis.component_sizes[r] = 2
    /\ image.height * image.width = 4

\* C20: analyze returns one descriptor for each component that
\* get_largest_components(top_n) returns, in that order (largest first), with
\* ids 1, 2, ...; the mask of a descriptor is true exactly at the pixels
\* (x, y) with find(y*width + x) equal to its root, its size is the number of
\* true cells of its mask, and the masks of two descriptors are disjoint.
\* analyze returns for every buffer that has a pixel.
C20_SegmentInfo ==
    /\ AnalyzeReturns
    /\ pc = "analyzed" =>
        LET info == analysis.segment_info
            pixels == Range(image.height * image.width)
            returned == {info[p].root : p \in DOMAIN info}
        IN  /\ Len(info) = Min(top_n, Cardinality(Roots(parent)))
            /\ \A p \in DOMAIN info :
                  /\ info[p].id = p
                  /\ info[p].root = get_largest_components(parent, top_n).components[p].root
                  /\ DOMAIN info[p].mask = pixels
                  /\ \A j \in pixels :
                        info[p].mask[j] <=> (find(parent, j).root = info[p].root)
                  /\ info[p].size = Cardinality({j \in pixels : info[p].mask[j]})
                  /\ p > 1 => info[p - 1].size >= info[p].size
                  /\ \A r \in Roots(parent) \ returned :
                        info[p].size >= Cardinality(Members(parent, r))
                  /\ \A q \in DOMAIN info :
                        q # p => \A j \in pixels : ~(info[p].mask[j] /\ info[q].mask[j])

C20_Witness ==
    /\ pc = "analyzed"
    /\ top_n = 9
    /\ Len(analysis.segment_info) = 2
    /\ analysis.segment_info[1].size = 3
    /\ analysis.segment_info[2].size = 1
    /\ analysis.segment_info[1].root > analysis.segment_info[2].root

\* C21: analyze is read-only over the forest segment handed to it: parent,
\* rank and num_sets are the same after analyze as before it was called, so
\* find of every index is unchanged.
C21_AnalyzeReadOnly ==
    [][pc = "done" =>
          /\ parent' = parent
          /\ rank' = rank
          /\ num_sets' = num_sets
          /\ \A i \in DOMAIN parent : find(parent', i).root = find(parent, i).root]_vars

C21_Witness ==
    /\ pc = "analyzed"
    /\ num_sets = 1
    /\ Cardinality(DOMAIN parent) = 4
    /\ \E i \in DOMAIN parent : rank[i] = 2

\* C22: for every non-empty 2-D or 3-channel buffer, segment returns a
\* labeled buffer of the shape of the input in which two pixels with the same
\* root carry the same color, and a segment count, the num_sets of the
\* returned forest, that is at least 1 and at most height * width.
C22_LabeledBuffer ==
    (pc = "done" /\ image.height * image.width > 0) =>
        /\ DOMAIN segmented_image = DOMAIN image.data
        /\ image.is_color =>
              \A i \in DOMAIN image.data :
                  DOMAIN segmented_image[i] = DOMAIN image.data[i]
        /\ ~image.is_color => \A i \in DOMAIN image.data : segmented_image[i] \in Colors
        /\ \A i, j \in DOMAIN parent :
              SameSet(parent, i, j) => segmented_image[i] = segmented_image[j]
        /\ num_sets >= 1
        /\ num_sets <= image.height * image.width

C22_Witness ==
    /\ pc = "done"
    /\ image.height = 2
    /\ image.width = 2
    /\ num_sets = 2
    /\ SameSet(parent, 0, 1)
    /\ parent[0] # parent[1] \/ parent[1] # 1
    /\ segmented_image[0] = segmented_image[1]
    /\ segmented_image[0] # segmented_image[3]

C27_NoCleanup ==
    /\ [](min_size <= 0 =>
             /\ pc # "pass2"
             /\ pc \in {"paint", "done"} => num_sets = pass1_num_sets)
    /\ [][(min_size <= 0 /\ pc = "pass1" /\ idx = Len(edges)) => pc' = "paint"]_vars
    /\ [][(min_size <= 0 /\ pc = "paint") =>
             (pc' = "done" /\ PartitionKept /\ num_sets' = num_sets)]_vars

C27_Witness ==
    /\ pc = "done"
    /\ min_size = -1
    /\ image.height * image.width = 4
    /\ pass1_num_sets = 3
    /\ num_sets = 3

----------------------------------------------------------------------------
(* The first loop as the claims describe it: components and, for each, the  *)
(* weight of the last edge merged into it, with no forest and no threshold  *)
(* array. Used only to state C28.                                          *)

\* comp[i] names the component of pixel i; last[i] is the weight of the most
\* recent edge merged into that component, -1 while it is a single pixel.
RefStart ==
    [comp |-> [i \in DOMAIN parent |-> i], last |-> [i \in DOMAIN parent |-> -1]]

RefThreshold(st, i) == IF st.last[i] = -1 THEN k ELSE k + st.last[i]

RefStep(st, e) ==
    LET w == e[1]
        cu == st.comp[e[2]]
        cv == st.comp[e[3]]
    IN  IF cu # cv /\ w <= Min(RefThreshold(st, e[2]), RefThreshold(st, e[3]))
        THEN [comp |-> [i \in DOMAIN parent |-> IF st.comp[i] = cv THEN cu ELSE st.comp[i]],
              last |-> [i \in DOMAIN parent |->
                          IF st.comp[i] \in {cu, cv} THEN w ELSE st.last[i]]]
        ELSE st

\* the components after the first p edges
RECURSIVE RefPass1(_)
RefPass1(p) == IF p = 0 THEN RefStart ELSE RefStep(RefPass1(p - 1), edges[p])

\* how many edges the first loop has processed, at a point of Pass 1 or at
\* its end
InPass1 ==
    \/ pc = "pass1"
    \/ pc = "pass2" /\ idx = 1
    \/ pc = "paint" /\ min_size <= 0

Processed == IF pc = "pass1" THEN idx - 1 ELSE Len(edges)

\* C28: at every point of Pass 1, for every current root r, threshold[r] is k
\* when the component of r is a single pixel and otherwise k plus the weight
\* of the most recent edge merged into the component of r, never a value
\* left by a former root; so threshold[r] >= k for every root, and every edge
\* of weight <= k whose endpoints are in different components when it is
\* processed is merged.
C28_ThresholdAtRoots ==
    /\ [](InPass1 =>
             LET st == RefPass1(Processed)
             IN  /\ \A i, j \in DOMAIN parent :
                       SameSet(parent, i, j) <=> st.comp[i] = st.comp[j]
                 /\ \A r \in Roots(parent) :
                       /\ threshold[r] = RefThreshold(st, r)
                       /\ threshold[r] >= k
                       /\ Members(parent, r) = {r} => threshold[r] = k)
    /\ [][(pc = "pass1" /\ CurWeight <= k /\ ~SameSet(parent, CurU, CurV)) =>
             Joined(Root(parent, CurU), Root(parent, CurV))]_vars

C28_Witness ==
    /\ pc = "pass1"
    /\ \E r \in Roots(parent) : \E x \in Members(parent, r) :
          /\ x # r
          /\ rank[x] = 1
          /\ threshold[r] > k
          /\ threshold[x] # threshold[r]

----------------------------------------------------------------------------
(* Claims about the shape of the components *)

\* The pixels of S linked to a pixel of R by a chain of horizontally or
\* vertically adjacent pixels of S.
RECURSIVE Grow(_, _)
Grow(S, R) ==
    LET near == {j \in S : \E i \in R :
                    \/ <<i, j>> \in AdjacentPairs(image.height, image.width)
                    \/ <<j, i>> \in AdjacentPairs(image.height, image.width)}
    IN  IF near \subseteq R THEN R ELSE Grow(S, R \cup near)

Connected(S) == \A x \in S : Grow(S, {x}) = S

\* C29: at every point of Pass 1 and Pass 2 and in the partition segment
\* returns, every component is 4-connected in the pixel grid: any two of its
\* pixels are linked by a chain of horizontally or vertically adjacent pixels
\* of the component.
C29_Connected ==
    pc \in {"pass1", "pass2", "paint", "done"} =>
        \A r \in Roots(parent) : Connected(Members(parent, r))

C29_Witness ==
    /\ pc = "done"
    /\ image.height = 2
    /\ image.width = 2
    /\ num_sets = 2
    /\ SameSet(parent, 0, 3)
    /\ SameSet(parent, 0, 1)
    /\ ~SameSet(parent, 0, 2)

=============================================================================
